---- MODULE Spec2Model ----
(***************************************************************************)
(* Model of the SNI indexer (wind-network/sni): the SQLite-backed          *)
(* StorageManager (src/src/storage.rs), the normalising ingestion step     *)
(* process_tide_data and the IndexerStats counters (src/src/indexer.rs),   *)
(* the SolanaIndexer orchestrator with its three joined loops, the health  *)
(* endpoint (src/src/api.rs), NetworkMonitor::check_health                 *)
(* (src/src/network.rs) and SniConfig::load (src/src/config.rs).           *)
(*                                                                         *)
(* These families of behaviours are specified over one set of variables:   *)
(*   Spec       concurrent callers of StorageManager::store                *)
(*   SpecProc   concurrent tasks running SolanaIndexer::process_tide_data  *)
(*   SpecOrch   SolanaIndexer::start / stop and the joined loops, and      *)
(*              FairSpecOrch, the same with the loops scheduled fairly     *)
(*   SpecPipe   SpecOrch with a task running process_tide_data             *)
(*   SpecApi    ApiServer::handle_health beside a caller of store          *)
(*   SpecSchema StorageManager::new on a fresh or kept database, and store *)
(*   SpecConfig SniConfig::load on a path the environment changes          *)
(*   SpecNet    NetworkMonitor::check_health                               *)
(***************************************************************************)
EXTENDS Integers, Sequences, FiniteSets, TLC

(***************************************************************************)
(* Bounds of the model.                                                    *)
(***************************************************************************)
\* u64 / i64 / usize are modelled with Width bits instead of 64.
Width == 4
\* number of concurrent callers of store()
NumCallers == 2
\* total number of store() calls issued in one behaviour
MaxCalls == 3
\* number of concurrent process_tide_data tasks
NumTasks == 3
\* number of start() calls in one behaviour
MaxStartCalls == 2
\* number of distinct events the engine produces in one behaviour
MaxEvents == 1
\* number of initialize_schema runs on one database in one behaviour
MaxSchemaRuns == 2

(***************************************************************************)
(* Integer types: `x as i64` and `x as u64` are two's complement           *)
(* reinterpretations of the same bits.                                     *)
(***************************************************************************)
U64Max == 2^Width - 1
I64Max == 2^(Width - 1) - 1

AsI64(u) == IF u > I64Max THEN u - 2^Width ELSE u
AsU64(i) == IF i < 0 THEN i + 2^Width ELSE i

\* Option<T>: None is the empty sequence, Some(x) the one-element sequence
None == <<>>
Some(x) == <<x>>

\* SQL MAX() over a non-empty set of INTEGER values (signed comparison)
SqlMax(S) == CHOOSE m \in S : \A x \in S : x <= m

(***************************************************************************)
(* IndexedData: the records handed to store().                             *)
(***************************************************************************)
\* a small slot, its successor, and the first slot whose i64 cast is negative
SlotVals == {1, 2, I64Max + 1}

BlockFieldVals ==
    { [parent_slot |-> 0, height |-> 0, timestamp |-> 0,
       blockhash |-> "h1", transactions_count |-> 3],
      [parent_slot |-> 0, height |-> 0, timestamp |-> 0,
       blockhash |-> "h1", transactions_count |-> 5],
      [parent_slot |-> U64Max, height |-> 1, timestamp |-> 0 - 1,
       blockhash |-> "h2", transactions_count |-> 0] }

Block(s, f) ==
    [kind |-> "Block", slot |-> s, parent_slot |-> f.parent_slot,
     height |-> f.height, timestamp |-> f.timestamp,
     blockhash |-> f.blockhash, transactions_count |-> f.transactions_count]

BlockRecs == { Block(s, f) : s \in SlotVals, f \in BlockFieldVals }

Signatures == {"sigA", "sigB"}

TransactionRecs ==
    { [kind |-> "Transaction", signature |-> g, slot |-> 1, timestamp |-> 0,
       success |-> TRUE, transaction_data |-> <<1>>] : g \in Signatures }
    \cup
    { [kind |-> "Transaction", signature |-> g, slot |-> 1, timestamp |-> 7,
       success |-> FALSE, transaction_data |-> <<>>] : g \in Signatures }

AccountRecs ==
    { [kind |-> "Account", pubkey |-> "p", owner |-> "o1", lamports |-> U64Max,
       slot |-> 10, executable |-> FALSE, rent_epoch |-> 0, data_hash |-> "d1"],
      [kind |-> "Account", pubkey |-> "p", owner |-> "o2", lamports |-> 1,
       slot |-> 5, executable |-> TRUE, rent_epoch |-> 1, data_hash |-> "d2"] }

SlotRecs ==
    { [kind |-> "Slot", slot |-> 1, parent |-> None, status |-> "finalized",
       timestamp |-> 0],
      [kind |-> "Slot", slot |-> 1, parent |-> Some(U64Max), status |-> "processed",
       timestamp |-> 1] }

IndexedData == BlockRecs \cup TransactionRecs \cup AccountRecs \cup SlotRecs

\* TideData: the raw events of the engine
TideData ==
    [slot : SlotVals, block_hash : {"h1", "h2"}, timestamp : {7}]

(***************************************************************************)
(* State.                                                                  *)
(***************************************************************************)
VARIABLES
    blocks,         \* rows of table blocks
    transactions,   \* rows of table transactions
    accounts,       \* rows of table accounts
    slots,          \* rows of table slots
    inflight,       \* caller -> Some(record) of its pending store(), or None
    calls,          \* number of store() calls issued so far
    log,            \* history: the records of the completed stores, in commit order
    failed,         \* history: number of store() calls that returned Err
    overlapped      \* history: some store() was called while another was pending

VARIABLES
    blocks_processed,   \* IndexerStats.blocks_processed
    procPc,             \* task -> its position in process_tide_data
    procData            \* task -> Some(indexed_data) it built, or None

VARIABLES
    started_at,         \* IndexerStats.started_at: OnceLock<Instant>
    running,            \* SolanaIndexer.running: AtomicBool
    joinPc,             \* the try_join! of start(): "none", "pending", "ok", "err"
    enginePc,           \* run_tide_engine: "none", "run", "ok", "err", "dropped"
    monPc,              \* run_network_monitor: "none", "init", "health",
                        \*   "validator", "sleep", "ok", "err", "dropped"
    statsPc,            \* run_stats_reporter: "none", "init", "report", "sleep",
                        \*   "ok", "dropped"
    startCalls,         \* number of start() calls so far
    restartRet,         \* what the latest start() that found started_at set returned
    engineStopped,      \* tide_engine.stop() has been called
    emitted,            \* the TideData events the engine has produced
    slot_height,        \* NetworkStats.slot_height
    epoch,              \* NetworkStats.epoch
    transaction_count,  \* NetworkStats.transaction_count
    last_health_check,  \* NetworkMonitor.last_health_check
    healthResult,       \* what the latest check_health() returned
    validators,         \* ValidatorTracker.validators
    last_update         \* ValidatorTracker.last_update

VARIABLES
    processing_latency_ms,  \* IndexerStats.processing_latency_ms
    latencyStores,      \* history: number of stores to processing_latency_ms
    schema,             \* the tables and indexes that exist in the database
    schemaRuns,         \* history: number of initialize_schema runs on the database
    schemaResult,       \* what the latest initialize_schema returned
    schemaRowsSeen,     \* history: number of rows it found in the tables
    apiPc,              \* get_health_data: "idle", "blocks", "transactions", "done"
    apiBlocks,          \* its local blocks_indexed: Some(count) once queried
    apiResponse,        \* Some(ApiResponse) the latest handle_health built
    apiQuiet,           \* history: no store() was pending while it was served
    apiQueries,         \* history: the outcomes of its count queries, in order
    cfgFile,            \* the file at the configuration path: None when absent
    cfgPc,              \* SniConfig::load: "idle", "read", "done"
    cfgResult,          \* Some(result) of the latest SniConfig::load
    rpcReply            \* history, kept by SpecNet: Some(answers of the RPC client)
                        \*   the latest check_health received

storeVars ==
    <<blocks, transactions, accounts, slots, inflight, calls, log, failed, overlapped>>
schemaVars == <<schema, schemaRuns, schemaResult, schemaRowsSeen>>
apiVars == <<apiPc, apiBlocks, apiResponse, apiQuiet, apiQueries>>
cfgVars == <<cfgFile, cfgPc, cfgResult>>
gaugeVars == <<processing_latency_ms, latencyStores>>
extVars == <<gaugeVars, schemaVars, apiVars, cfgVars, rpcReply>>
taskVars == <<joinPc, enginePc, monPc, statsPc>>
netVars ==
    <<slot_height, epoch, transaction_count, last_health_check, healthResult,
      validators, last_update>>
orchVars ==
    <<started_at, running, taskVars, startCalls, restartRet, engineStopped, emitted,
      netVars>>
tableVars == <<blocks, transactions, accounts, slots>>
callVars == <<inflight, calls, log, failed, overlapped>>
procVars == <<blocks_processed, procPc, procData>>
vars == <<storeVars, procVars, orchVars, extVars>>

Callers == 1..NumCallers
Tasks == 1..NumTasks

(***************************************************************************)
(* StorageManager::store: the rows bound by each INSERT OR REPLACE.        *)
(***************************************************************************)
BlockRow(d) ==
    [slot |-> AsI64(d.slot), parent_slot |-> AsI64(d.parent_slot),
     height |-> AsI64(d.height), timestamp |-> d.timestamp,
     blockhash |-> d.blockhash,
     transactions_count |-> AsI64(d.transactions_count)]

TransactionRow(d) ==
    [signature |-> d.signature, slot |-> AsI64(d.slot), timestamp |-> d.timestamp,
     success |-> d.success, transaction_data |-> d.transaction_data]

AccountRow(d) ==
    [pubkey |-> d.pubkey, owner |-> d.owner, lamports |-> AsI64(d.lamports),
     slot |-> AsI64(d.slot), executable |-> d.executable,
     rent_epoch |-> AsI64(d.rent_epoch), data_hash |-> d.data_hash]

SlotRow(d) ==
    [slot |-> AsI64(d.slot),
     parent |-> IF d.parent = None THEN None ELSE Some(AsI64(d.parent[1])),
     status |-> d.status, timestamp |-> d.timestamp]

\* the PRIMARY KEY column of each table
BlockKey == "slot"
\* mutant: the transactions table keyed by its slot column
TransactionKeySlot == "slot"
TransactionKey == "signature"
AccountKey == "pubkey"
SlotKey == "slot"

\* INSERT OR REPLACE: the row with the same primary key is deleted, then the
\* new row is inserted, in one statement.
InsertOrReplace(table, row, pk) ==
    { r \in table : r[pk] # row[pk] } \cup {row}

\* mutant: a plain INSERT into a table without the primary key
StoreBlocksNoReplace(d) ==
    IF d.kind = "Block" THEN blocks \cup {BlockRow(d)} ELSE blocks
\* mutant: an upsert that updates transactions_count alone on conflict
StoreBlocksMerge(d) ==
    IF d.kind # "Block" THEN blocks
    ELSE IF \E r \in blocks : r[BlockKey] = BlockRow(d)[BlockKey]
         THEN { IF r[BlockKey] = BlockRow(d)[BlockKey]
                THEN [r EXCEPT !.transactions_count = BlockRow(d).transactions_count]
                ELSE r : r \in blocks }
         ELSE blocks \cup {BlockRow(d)}
\* mutant: a Transaction also writes a row for its slot into blocks
StoreBlocksForSlot(d) ==
    IF d.kind = "Block" THEN InsertOrReplace(blocks, BlockRow(d), BlockKey)
    ELSE IF d.kind = "Transaction"
    THEN InsertOrReplace(blocks,
             [slot |-> AsI64(d.slot), parent_slot |-> 0, height |-> 0,
              timestamp |-> d.timestamp, blockhash |-> "",
              transactions_count |-> 1], BlockKey)
    ELSE blocks
StoreBlocks(d) ==
    IF d.kind = "Block" THEN InsertOrReplace(blocks, BlockRow(d), BlockKey) ELSE blocks
StoreTransactions(d) ==
    IF d.kind = "Transaction"
    THEN InsertOrReplace(transactions, TransactionRow(d), TransactionKey)
    ELSE transactions
\* mutant: an upsert that keeps the row when its slot is the newer one
StoreAccountsIfNewer(d) ==
    IF d.kind # "Account" THEN accounts
    ELSE IF \E r \in accounts : r[AccountKey] = AccountRow(d)[AccountKey]
                                   /\ r.slot > AccountRow(d).slot
         THEN accounts
         ELSE InsertOrReplace(accounts, AccountRow(d), AccountKey)
StoreAccounts(d) ==
    IF d.kind = "Account" THEN InsertOrReplace(accounts, AccountRow(d), AccountKey)
    ELSE accounts
StoreSlots(d) ==
    IF d.kind = "Slot" THEN InsertOrReplace(slots, SlotRow(d), SlotKey) ELSE slots

(***************************************************************************)
(* StorageManager queries.                                                 *)
(***************************************************************************)
get_latest_slot ==
    IF blocks = {} THEN None
    ELSE Some(AsU64(SqlMax({ r.slot : r \in blocks })))

get_block_count == AsU64(Cardinality(blocks))

get_transaction_count == AsU64(Cardinality(transactions))

(***************************************************************************)
(* Spec: concurrent callers of store().                                    *)
(***************************************************************************)
StoreInit ==
    /\ blocks = {}
    /\ transactions = {}
    /\ accounts = {}
    /\ slots = {}
    /\ inflight = [c \in Callers |-> None]
    /\ calls = 0
    /\ log = <<>>
    /\ failed = 0
    /\ overlapped = FALSE

ProcInit ==
    /\ blocks_processed = 0
    /\ procPc = [t \in Tasks |-> "idle"]
    /\ procData = [t \in Tasks |-> None]

OrchInit ==
    /\ started_at = None
    /\ running = FALSE
    /\ joinPc = "none"
    /\ enginePc = "none"
    /\ monPc = "none"
    /\ statsPc = "none"
    /\ startCalls = 0
    /\ restartRet = "none"
    /\ engineStopped = FALSE
    /\ emitted = {}
    /\ slot_height = 0
    /\ epoch = 0
    /\ transaction_count = 0
    /\ last_health_check = None
    /\ healthResult = "none"
    /\ validators = {}
    /\ last_update = None

\* the objects initialize_schema creates: four tables and three indexes
SchemaTables == {"blocks", "transactions", "accounts", "slots"}
SchemaIndexes ==
    {"idx_blocks_timestamp", "idx_transactions_slot", "idx_accounts_owner"}

\* StorageManager::new has run initialize_schema once
SchemaInit ==
    /\ schema = SchemaTables \cup SchemaIndexes
    /\ schemaRuns = 1
    /\ schemaResult = "Ok"
    /\ schemaRowsSeen = 0

ExtInit ==
    /\ processing_latency_ms = 0
    /\ latencyStores = 0
    /\ apiPc = "idle"
    /\ apiBlocks = None
    /\ apiResponse = None
    /\ apiQuiet = TRUE
    /\ apiQueries = <<>>
    /\ cfgFile = None
    /\ cfgPc = "idle"
    /\ cfgResult = None
    /\ rpcReply = None

Init == StoreInit /\ ProcInit /\ OrchInit /\ SchemaInit /\ ExtInit

\* a caller enters store(data); the statement is sent to the pool
StoreCall(c, d) ==
    /\ inflight[c] = None
    /\ calls < MaxCalls
    /\ inflight' = [inflight EXCEPT ![c] = Some(d)]
    /\ calls' = calls + 1
    /\ overlapped' = (overlapped \/ \E o \in Callers : inflight[o] # None)
    /\ UNCHANGED <<blocks, transactions, accounts, slots, log, failed, procVars, orchVars, extVars>>

\* the statement executes and store() returns Ok(())
StoreOk(c) ==
    /\ inflight[c] # None
    /\ blocks' = StoreBlocks(inflight[c][1])
    /\ transactions' = StoreTransactions(inflight[c][1])
    /\ accounts' = StoreAccounts(inflight[c][1])
    /\ slots' = StoreSlots(inflight[c][1])
    /\ log' = Append(log, inflight[c][1])
    /\ inflight' = [inflight EXCEPT ![c] = None]
    /\ UNCHANGED <<calls, failed, overlapped, procVars, orchVars, extVars>>

\* execute() fails and `?` returns the error; nothing is written
StoreErr(c) ==
    /\ inflight[c] # None
    /\ failed' = failed + 1
    /\ inflight' = [inflight EXCEPT ![c] = None]
    /\ UNCHANGED <<blocks, transactions, accounts, slots, calls, log, overlapped, procVars,
                   orchVars, extVars>>

Next ==
    \/ \E c \in Callers, d \in IndexedData : StoreCall(c, d)
    \/ \E c \in Callers : StoreOk(c)
    \/ \E c \in Callers : StoreErr(c)

Spec == Init /\ [][Next]_vars

(***************************************************************************)
(* SpecProc: concurrent tasks running process_tide_data.                   *)
(***************************************************************************)
\* mutant: the height taken to be the slot
IndexedBlockHeight(data) ==
    [kind |-> "Block", slot |-> data.slot, parent_slot |-> 0, height |-> data.slot,
     timestamp |-> data.timestamp, blockhash |-> data.block_hash,
     transactions_count |-> 0]
\* the Block built from a TideData; the fields TideData lacks are 0
IndexedBlock(data) ==
    [kind |-> "Block", slot |-> data.slot, parent_slot |-> 0, height |-> 0,
     timestamp |-> data.timestamp, blockhash |-> data.block_hash,
     transactions_count |-> 0]

\* AtomicU64::fetch_add: one atomic read-modify-write, wrapping on overflow
\* mutant: a plain store of the operand
atomic_store(v, n) == n
fetch_add(v, n) == (v + n) % 2^Width

\* process_tide_data is entered: indexed_data is built, store() is called
ProcessCall(t, data) ==
    /\ procPc[t] = "idle"
    /\ procData' = [procData EXCEPT ![t] = Some(IndexedBlock(data))]
    /\ procPc' = [procPc EXCEPT ![t] = "store"]
    /\ UNCHANGED <<storeVars, blocks_processed, orchVars, extVars>>

\* storage.store(indexed_data).await returns Ok
ProcessStoreOk(t) ==
    /\ procPc[t] = "store"
    /\ blocks' = StoreBlocks(procData[t][1])
    /\ transactions' = StoreTransactions(procData[t][1])
    /\ accounts' = StoreAccounts(procData[t][1])
    /\ slots' = StoreSlots(procData[t][1])
    /\ procPc' = [procPc EXCEPT ![t] = "count"]
    /\ UNCHANGED <<callVars, blocks_processed, procData, orchVars, extVars>>

\* mutant: the counter incremented before the result of store() is looked at
ProcessStoreErrCounted(t) ==
    /\ procPc[t] = "store"
    /\ blocks_processed' = fetch_add(blocks_processed, 1)
    /\ procPc' = [procPc EXCEPT ![t] = "err"]
    /\ UNCHANGED <<storeVars, procData, orchVars, extVars>>
\* storage.store(indexed_data).await returns Err: `?` returns it
ProcessStoreErr(t) ==
    /\ procPc[t] = "store"
    /\ procPc' = [procPc EXCEPT ![t] = "err"]
    /\ UNCHANGED <<storeVars, blocks_processed, procData, orchVars, extVars>>

\* blocks_processed.fetch_add(1), then Ok(())
ProcessCount(t) ==
    /\ procPc[t] = "count"
    /\ blocks_processed' = fetch_add(blocks_processed, 1)
    /\ procPc' = [procPc EXCEPT ![t] = "ok"]
    /\ UNCHANGED <<storeVars, procData, orchVars, extVars>>

NextProc ==
    \/ \E t \in Tasks, data \in TideData : ProcessCall(t, data)
    \/ \E t \in Tasks : ProcessStoreOk(t)
    \/ \E t \in Tasks : ProcessStoreErr(t)
    \/ \E t \in Tasks : ProcessCount(t)

SpecProc == Init /\ [][NextProc]_vars

(***************************************************************************)
(* SpecOrch: SolanaIndexer::start / stop and the three joined loops.       *)
(* start() polls the three futures of try_join! in one task, so a future   *)
(* is dropped only where it is suspended: before its first poll or in its  *)
(* sleep.  stop() and further start() calls are taken at any time.         *)
(***************************************************************************)
\* Instant::now()
Instants == {1, 2}

\* the events tide_engine produces: one below and one above the i64 range
EngineEvents == { data \in TideData : data.block_hash = "h1" /\ data.slot # 2 }

\* Result<T>: Err is the empty sequence, Ok(v) the one-element sequence
Err == <<>>
Ok(v) == <<v>>

\* what the RPC client answers to get_slot, get_epoch_info, get_transaction_count
RpcVals == {1, 2}
RpcResults == {Err} \cup { Ok(v) : v \in RpcVals }
RpcReplies ==
    [get_slot : RpcResults, get_epoch_info : RpcResults,
     get_transaction_count : RpcResults]

\* OnceLock::set: stores the value and is Ok if the cell is empty, else Err
\* mutant: a cell that takes every value
overwrite_set(cell, v) == [ok |-> TRUE, cell |-> Some(v)]
once_set(cell, v) ==
    IF cell = None THEN [ok |-> TRUE, cell |-> Some(v)]
    ELSE [ok |-> FALSE, cell |-> cell]

\* a future dropped by the join unless it has completed
Cancel(pc) == IF pc \in {"ok", "err"} THEN pc ELSE "dropped"

\* mutant: join!, which waits for all three futures whatever they return
join_all(e, m, s) ==
    [join |-> IF {e, m, s} \subseteq {"ok", "err"}
              THEN (IF "err" \in {e, m, s} THEN "err" ELSE "ok")
              ELSE "pending",
     engine |-> e, mon |-> m, stats |-> s]
\* tokio::try_join!: Err as soon as one future returns Err, the others being
\* dropped; Ok once all three have returned Ok
try_join(e, m, s) ==
    IF "err" \in {e, m, s}
    THEN [join |-> "err", engine |-> Cancel(e), mon |-> Cancel(m), stats |-> Cancel(s)]
    ELSE [join |-> IF {e, m, s} = {"ok"} THEN "ok" ELSE "pending",
          engine |-> e, mon |-> m, stats |-> s]

\* the three futures after one of them has moved
Poll(e, m, s) ==
    /\ joinPc' = try_join(e, m, s).join
    /\ enginePc' = try_join(e, m, s).engine
    /\ monPc' = try_join(e, m, s).mon
    /\ statsPc' = try_join(e, m, s).stats

\* a future that is not in the middle of a poll
Suspended(pc) == pc \in {"init", "run", "sleep", "ok"}

\* mutant: start() that leaves the flag cleared after an earlier stop()
StartUnlessStopped(now) ==
    /\ startCalls < MaxStartCalls
    /\ startCalls' = startCalls + 1
    /\ started_at' = once_set(started_at, now).cell
    /\ IF once_set(started_at, now).ok
       THEN /\ running' = ~engineStopped
            /\ joinPc' = "pending"
            /\ enginePc' = "run"
            /\ monPc' = "init"
            /\ statsPc' = "init"
            /\ UNCHANGED restartRet
       ELSE /\ restartRet' = "Already started"
            /\ UNCHANGED <<running, taskVars>>
    /\ UNCHANGED <<engineStopped, emitted, netVars, storeVars, procVars, extVars>>
\* start()
Start(now) ==
    /\ startCalls < MaxStartCalls
    /\ startCalls' = startCalls + 1
    /\ started_at' = once_set(started_at, now).cell
    /\ IF once_set(started_at, now).ok
       THEN /\ running' = TRUE
            /\ joinPc' = "pending"
            /\ enginePc' = "run"
            /\ monPc' = "init"
            /\ statsPc' = "init"
            /\ UNCHANGED restartRet
       ELSE /\ restartRet' = "Already started"
            /\ UNCHANGED <<running, taskVars>>
    /\ UNCHANGED <<engineStopped, emitted, netVars, storeVars, procVars, extVars>>

\* mutant: stop() that forgets the flag
StopEngineOnly ==
    /\ engineStopped' = TRUE
    /\ UNCHANGED <<running, started_at, taskVars, startCalls, restartRet, emitted,
                   netVars, storeVars, procVars, extVars>>
\* stop()
Stop ==
    /\ running' = FALSE
    /\ engineStopped' = TRUE
    /\ UNCHANGED <<started_at, taskVars, startCalls, restartRet, emitted, netVars,
                   storeVars, procVars, extVars>>

\* run_tide_engine: tide_engine.start() is running and produces an event;
\* nothing in the indexer receives it
EngineEmit(data) ==
    /\ joinPc = "pending" /\ enginePc = "run"
    /\ data \notin emitted
    /\ Cardinality(emitted) < MaxEvents
    /\ emitted' = emitted \cup {data}
    /\ UNCHANGED <<started_at, running, taskVars, startCalls, restartRet,
                   engineStopped, netVars, storeVars, procVars, extVars>>

\* run_tide_engine: tide_engine.start().await returns Ok(())
EngineOk ==
    /\ joinPc = "pending" /\ enginePc = "run"
    /\ Poll("ok", monPc, statsPc)
    /\ UNCHANGED <<started_at, running, startCalls, restartRet, engineStopped,
                   emitted, netVars, storeVars, procVars, extVars>>

\* run_tide_engine: tide_engine.start().await returns Err, mapped by map_err
EngineErr ==
    /\ joinPc = "pending" /\ enginePc = "run"
    /\ Suspended(monPc) /\ Suspended(statsPc)
    /\ Poll("err", monPc, statsPc)
    /\ UNCHANGED <<started_at, running, startCalls, restartRet, engineStopped,
                   emitted, netVars, storeVars, procVars, extVars>>

\* mutant: a loop that leaves while the flag is set
loop_until(flag, body) == IF flag THEN "ok" ELSE body
\* `while self.running.load(SeqCst)`: the body, or past the loop to Ok(())
loop_head(flag, body) == IF flag THEN body ELSE "ok"

\* run_network_monitor: the loop condition, at the first poll or after the sleep
MonCheck ==
    /\ joinPc = "pending" /\ monPc \in {"init", "sleep"}
    /\ Poll(enginePc, loop_head(running, "health"), statsPc)
    /\ UNCHANGED <<started_at, running, startCalls, restartRet, engineStopped,
                   emitted, netVars, storeVars, procVars, extVars>>

\* mutant: the three queries first, the three stores after them
check_health_all_or_nothing(rpc, now) ==
    IF rpc.get_slot = Err \/ rpc.get_epoch_info = Err
          \/ rpc.get_transaction_count = Err
    THEN [slot_height |-> slot_height, epoch |-> epoch,
          transaction_count |-> transaction_count,
          last_health_check |-> last_health_check, result |-> "Err"]
    ELSE [slot_height |-> rpc.get_slot[1], epoch |-> rpc.get_epoch_info[1],
          transaction_count |-> rpc.get_transaction_count[1],
          last_health_check |-> Some(now), result |-> "Ok"]
\* NetworkMonitor::check_health: three queries, each `?`, each followed by
\* the store of its gauge
check_health(rpc, now) ==
    IF rpc.get_slot = Err
    THEN [slot_height |-> slot_height, epoch |-> epoch,
          transaction_count |-> transaction_count,
          last_health_check |-> last_health_check, result |-> "Err"]
    ELSE IF rpc.get_epoch_info = Err
    THEN [slot_height |-> rpc.get_slot[1], epoch |-> epoch,
          transaction_count |-> transaction_count,
          last_health_check |-> last_health_check, result |-> "Err"]
    ELSE IF rpc.get_transaction_count = Err
    THEN [slot_height |-> rpc.get_slot[1], epoch |-> rpc.get_epoch_info[1],
          transaction_count |-> transaction_count,
          last_health_check |-> last_health_check, result |-> "Err"]
    ELSE [slot_height |-> rpc.get_slot[1], epoch |-> rpc.get_epoch_info[1],
          transaction_count |-> rpc.get_transaction_count[1],
          last_health_check |-> Some(now), result |-> "Ok"]

\* mutant: the health check's error returned with `?`
after_health_propagate(result) == IF result = "Err" THEN "err" ELSE "validator"
\* `if let Err(e) = check_health().await { error!(..) }`: on to the refresh
after_health(result) == "validator"

\* run_network_monitor: the health check of one iteration
MonHealth(rpc, now) ==
    /\ joinPc = "pending" /\ monPc = "health"
    /\ slot_height' = check_health(rpc, now).slot_height
    /\ epoch' = check_health(rpc, now).epoch
    /\ transaction_count' = check_health(rpc, now).transaction_count
    /\ last_health_check' = check_health(rpc, now).last_health_check
    /\ healthResult' = check_health(rpc, now).result
    /\ Poll(enginePc, after_health(check_health(rpc, now).result), statsPc)
    /\ UNCHANGED <<started_at, running, startCalls, restartRet, engineStopped,
                   emitted, validators, last_update, storeVars, procVars, extVars>>

\* the identities a caller can ask ValidatorTracker about
Identities == {"v1", "v2"}

\* ValidatorTracker::get_validator_count: validators.len()
get_validator_count == Cardinality(validators)

\* ValidatorTracker::get_validator: validators.get(pubkey), cloned
get_validator(pubkey) ==
    IF \E v \in validators : v.identity = pubkey
    THEN Some(CHOOSE v \in validators : v.identity = pubkey)
    ELSE None

\* mutant: a refresh that records a validator it discovered
MonValidatorDiscover(now) ==
    /\ joinPc = "pending" /\ monPc = "validator"
    /\ last_update' = Some(now)
    /\ validators' = validators \cup {[identity |-> "v1", vote_account |-> "a1"]}
    /\ Poll(enginePc, "sleep", statsPc)
    /\ UNCHANGED <<started_at, running, startCalls, restartRet, engineStopped,
                   emitted, slot_height, epoch, transaction_count,
                   last_health_check, healthResult, storeVars, procVars, extVars>>
\* run_network_monitor: update_validator_info (always Ok), then the sleep begins
MonValidator(now) ==
    /\ joinPc = "pending" /\ monPc = "validator"
    /\ last_update' = Some(now)
    /\ Poll(enginePc, "sleep", statsPc)
    /\ UNCHANGED <<started_at, running, startCalls, restartRet, engineStopped,
                   emitted, slot_height, epoch, transaction_count,
                   last_health_check, healthResult, validators, storeVars, procVars, extVars>>

\* run_stats_reporter: the loop condition, at the first poll or after the sleep
StatsCheck ==
    /\ joinPc = "pending" /\ statsPc \in {"init", "sleep"}
    /\ Poll(enginePc, monPc, loop_head(running, "report"))
    /\ UNCHANGED <<started_at, running, startCalls, restartRet, engineStopped,
                   emitted, netVars, storeVars, procVars, extVars>>

\* run_stats_reporter: the counters are read and logged, then the sleep begins
StatsReport ==
    /\ joinPc = "pending" /\ statsPc = "report"
    /\ Poll(enginePc, monPc, "sleep")
    /\ UNCHANGED <<started_at, running, startCalls, restartRet, engineStopped,
                   emitted, netVars, storeVars, procVars, extVars>>

MonStep ==
    \/ MonCheck
    \/ \E rpc \in RpcReplies, now \in Instants : MonHealth(rpc, now)
    \/ \E now \in Instants : MonValidator(now)

StatsStep == StatsCheck \/ StatsReport

NextOrch ==
    \/ \E now \in Instants : Start(now)
    \/ Stop
    \/ \E data \in EngineEvents : EngineEmit(data)
    \/ EngineOk
    \/ EngineErr
    \/ MonStep
    \/ StatsStep

SpecOrch == Init /\ [][NextOrch]_vars

\* the runtime polls a future that can move, and the sleeps elapse
FairSpecOrch == SpecOrch /\ WF_vars(MonStep) /\ WF_vars(StatsStep)

(***************************************************************************)
(* SpecPipe: the orchestrator together with the ingestion path.  Nothing   *)
(* that start() joins calls process_tide_data (run_data_processor is       *)
(* commented out), so the one sequential task that runs it for the events  *)
(* of the engine is outside the try_join!.                                 *)
(***************************************************************************)
PipeProcess ==
    /\ joinPc = "pending"
    /\ \/ \E data \in emitted : ProcessCall(1, data)
       \/ ProcessStoreOk(1)
       \/ ProcessStoreErr(1)
       \/ ProcessCount(1)

NextPipe == NextOrch \/ PipeProcess

SpecPipe == Init /\ [][NextPipe]_vars

(***************************************************************************)
(* SpecApi: ApiServer::handle_health beside a caller of store().  The      *)
(* handler awaits the two count queries one after the other; a store() can *)
(* be called or commit between them.  StoreBegin and StoreEnd are store()  *)
(* by one caller without the histories calls and log, which belong to      *)
(* Spec.                                                                   *)
(***************************************************************************)
\* five distinct slots, two of them beyond the i64 range
ApiSlots == {1, 2, 3, I64Max + 1, U64Max}
ApiSignatures == {"sigA", "sigB", "sigC"}

ApiData ==
    { Block(s, [parent_slot |-> 0, height |-> 0, timestamp |-> 0,
                blockhash |-> "h1", transactions_count |-> 0]) : s \in ApiSlots }
    \cup
    { [kind |-> "Transaction", signature |-> g, slot |-> 1, timestamp |-> 0,
       success |-> TRUE, transaction_data |-> <<1>>] : g \in ApiSignatures }

\* mutant: the two counts in each other's field
HealthResponseSwapped(blocks_indexed, transactions_indexed) ==
    [status |-> "healthy", version |-> "CARGO_PKG_VERSION", uptime_seconds |-> 0,
     blocks_indexed |-> transactions_indexed,
     transactions_indexed |-> blocks_indexed]
HealthResponse(blocks_indexed, transactions_indexed) ==
    [status |-> "healthy", version |-> "CARGO_PKG_VERSION", uptime_seconds |-> 0,
     blocks_indexed |-> blocks_indexed,
     transactions_indexed |-> transactions_indexed]

\* ApiResponse built by the two arms of the match in handle_health
ApiSuccess(data) == [success |-> TRUE, data |-> Some(data), error |-> None]
ApiFailure(e) == [success |-> FALSE, data |-> None, error |-> Some(e)]

\* a query is being awaited by the handler
Serving == apiPc \in {"blocks", "transactions"}

\* a caller enters store(data)
StoreBegin(d) ==
    /\ inflight[1] = None
    /\ inflight' = [inflight EXCEPT ![1] = Some(d)]
    /\ apiQuiet' = (apiQuiet /\ ~Serving)
    /\ UNCHANGED <<tableVars, calls, log, failed, overlapped, procVars, orchVars,
                   gaugeVars, schemaVars, apiPc, apiBlocks, apiResponse,
                   apiQueries, cfgVars, rpcReply>>

\* the statement executes and store() returns Ok(())
StoreEnd ==
    /\ inflight[1] # None
    /\ blocks' = StoreBlocks(inflight[1][1])
    /\ transactions' = StoreTransactions(inflight[1][1])
    /\ accounts' = StoreAccounts(inflight[1][1])
    /\ slots' = StoreSlots(inflight[1][1])
    /\ inflight' = [inflight EXCEPT ![1] = None]
    /\ UNCHANGED <<calls, log, failed, overlapped, procVars, orchVars, extVars>>

\* handle_health is entered for a GET /health request
HandleHealth ==
    /\ apiPc \in {"idle", "done"}
    /\ apiPc' = "blocks"
    /\ apiBlocks' = None
    /\ apiResponse' = None
    /\ apiQueries' = <<>>
    /\ apiQuiet' = (\A c \in Callers : inflight[c] = None)
    /\ UNCHANGED <<storeVars, procVars, orchVars, gaugeVars, schemaVars,
                   cfgVars, rpcReply>>

\* storage.get_block_count().await?
HealthBlockCount(ok) ==
    /\ apiPc = "blocks"
    /\ apiQueries' = Append(apiQueries, IF ok THEN "Ok" ELSE "Err")
    /\ IF ok
       THEN /\ apiBlocks' = Some(get_block_count)
            /\ apiPc' = "transactions"
            /\ UNCHANGED apiResponse
       ELSE /\ apiResponse' = Some(ApiFailure("get_block_count"))
            /\ apiPc' = "done"
            /\ UNCHANGED apiBlocks
    /\ UNCHANGED <<storeVars, procVars, orchVars, gaugeVars, schemaVars,
                   apiQuiet, cfgVars, rpcReply>>

\* mutant: a failed transaction count answered as a count of 0
HealthTransactionCountOrZero(ok) ==
    /\ apiPc = "transactions"
    /\ apiQueries' = Append(apiQueries, IF ok THEN "Ok" ELSE "Err")
    /\ apiResponse' =
           IF ok
           THEN Some(ApiSuccess(HealthResponse(apiBlocks[1], get_transaction_count)))
           ELSE Some(ApiSuccess(HealthResponse(apiBlocks[1], 0)))
    /\ apiPc' = "done"
    /\ UNCHANGED <<storeVars, procVars, orchVars, gaugeVars, schemaVars,
                   apiBlocks, apiQuiet, cfgVars, rpcReply>>
\* storage.get_transaction_count().await?, then the response is built
HealthTransactionCount(ok) ==
    /\ apiPc = "transactions"
    /\ apiQueries' = Append(apiQueries, IF ok THEN "Ok" ELSE "Err")
    /\ apiResponse' =
           IF ok
           THEN Some(ApiSuccess(HealthResponse(apiBlocks[1], get_transaction_count)))
           ELSE Some(ApiFailure("get_transaction_count"))
    /\ apiPc' = "done"
    /\ UNCHANGED <<storeVars, procVars, orchVars, gaugeVars, schemaVars,
                   apiBlocks, apiQuiet, cfgVars, rpcReply>>

NextApi ==
    \/ \E d \in ApiData : StoreBegin(d)
    \/ StoreEnd
    \/ HandleHealth
    \/ \E ok \in BOOLEAN : HealthBlockCount(ok)
    \/ \E ok \in BOOLEAN : HealthTransactionCount(ok)

SpecApi == Init /\ [][NextApi]_vars

(***************************************************************************)
(* SpecSchema: StorageManager::new on a database file, fresh or kept from  *)
(* an earlier run, and store() once it is constructed.                     *)
(* A statement fails when it conflicts with the objects that exist; the    *)
(* failures of the database itself are not modelled here.                  *)
(***************************************************************************)
\* mutant: DROP TABLE IF EXISTS, then CREATE TABLE
create_table_fresh(exists, rows) == [ok |-> TRUE, rows |-> {}]
\* mutant: CREATE TABLE, an error on a table that exists
create_table_plain(exists, rows) ==
    IF exists THEN [ok |-> FALSE, rows |-> rows] ELSE [ok |-> TRUE, rows |-> {}]
\* CREATE TABLE IF NOT EXISTS: a table that exists is left as it is
create_table(exists, rows) ==
    IF exists THEN [ok |-> TRUE, rows |-> rows] ELSE [ok |-> TRUE, rows |-> {}]

\* CREATE INDEX IF NOT EXISTS
create_index(exists) == [ok |-> TRUE]

\* the database file before StorageManager::new has run on it
SchemaFresh ==
    /\ schema = {}
    /\ schemaRuns = 0
    /\ schemaResult = "none"
    /\ schemaRowsSeen = 0

InitFresh == StoreInit /\ ProcInit /\ OrchInit /\ SchemaFresh /\ ExtInit

\* initialize_schema: the seven statements in order, each followed by `?`
InitializeSchema ==
    /\ schemaRuns < MaxSchemaRuns
    /\ schemaRuns' = schemaRuns + 1
    /\ schemaRowsSeen' = Cardinality(blocks) + Cardinality(transactions)
                             + Cardinality(accounts) + Cardinality(slots)
    /\ LET b == create_table("blocks" \in schema, blocks)
           t == create_table("transactions" \in schema, transactions)
           a == create_table("accounts" \in schema, accounts)
           s == create_table("slots" \in schema, slots)
           i1 == create_index("idx_blocks_timestamp" \in schema)
           i2 == create_index("idx_transactions_slot" \in schema)
           i3 == create_index("idx_accounts_owner" \in schema)
           ok1 == b.ok
           ok2 == ok1 /\ t.ok
           ok3 == ok2 /\ a.ok
           ok4 == ok3 /\ s.ok
           ok5 == ok4 /\ i1.ok
           ok6 == ok5 /\ i2.ok
           ok7 == ok6 /\ i3.ok
       IN /\ blocks' = b.rows
          /\ transactions' = IF ok1 THEN t.rows ELSE transactions
          /\ accounts' = IF ok2 THEN a.rows ELSE accounts
          /\ slots' = IF ok3 THEN s.rows ELSE slots
          /\ schema' = schema
                 \cup (IF ok1 THEN {"blocks"} ELSE {})
                 \cup (IF ok2 THEN {"transactions"} ELSE {})
                 \cup (IF ok3 THEN {"accounts"} ELSE {})
                 \cup (IF ok4 THEN {"slots"} ELSE {})
                 \cup (IF ok5 THEN {"idx_blocks_timestamp"} ELSE {})
                 \cup (IF ok6 THEN {"idx_transactions_slot"} ELSE {})
                 \cup (IF ok7 THEN {"idx_accounts_owner"} ELSE {})
          /\ schemaResult' = IF ok7 THEN "Ok" ELSE "Err"
    /\ UNCHANGED <<callVars, procVars, orchVars, gaugeVars, apiVars,
                   cfgVars, rpcReply>>

\* store() is called on a StorageManager that new() has returned
NextSchema ==
    \/ InitializeSchema
    \/ schemaResult = "Ok" /\ \E d \in IndexedData : StoreBegin(d)
    \/ StoreEnd

SpecSchema == InitFresh /\ [][NextSchema]_vars

(***************************************************************************)
(* SpecConfig: SniConfig::load on a path whose file the environment        *)
(* writes, replaces and removes.  A TOML text is modelled by what the      *)
(* parser makes of it: whether it is TOML at all, and the top-level tables *)
(* it holds.                                                               *)
(***************************************************************************)
\* impl Default for SniConfig
DefaultConfig ==
    [network |->
        [rpc_url |-> "https://api.mainnet-beta.solana.com",
         websocket_url |-> "wss://api.mainnet-beta.solana.com",
         commitment |-> "confirmed", auto_discover_validators |-> TRUE,
         max_validator_connections |-> 5],
     storage |->
        [database_url |-> "sqlite:sni.db", enable_compression |-> TRUE,
         batch_size |-> 1000, flush_interval_ms |-> 5000],
     api |->
        [host |-> "0.0.0.0", port |-> 8080, enable_graphql |-> TRUE,
         enable_websockets |-> TRUE, cors_origins |-> <<"*">>],
     indexing |->
        [index_accounts |-> TRUE, index_transactions |-> TRUE,
         index_blocks |-> TRUE, track_validators |-> TRUE,
         track_network_health |-> TRUE, program_filters |-> <<>>]]

\* a configuration an operator wrote: another database and batch size
CustomConfig ==
    [DefaultConfig EXCEPT !.storage.database_url = "sqlite:/var/lib/sni/main.db",
                          !.storage.batch_size = 500,
                          !.api.port = 9090]

\* the fields of SniConfig: none has a serde default
ConfigTables == {"network", "storage", "api", "indexing"}

\* what can be at the path: a directory, or a file whose text is TOML or
\* not and holds some of the tables, taken from one of the configurations
ConfigFiles ==
    { [kind |-> "file", toml |-> b, tables |-> [n \in T |-> c[n]]] :
        b \in BOOLEAN, T \in SUBSET ConfigTables, c \in {DefaultConfig, CustomConfig} }
    \cup { [kind |-> "dir", toml |-> FALSE, tables |-> <<>>] }

\* Path::exists
exists(file) == file # None

\* std::fs::read_to_string
read_to_string(file) ==
    IF file # None /\ file[1].kind = "file" THEN Ok(file[1]) ELSE Err

\* mutant: a text that does not deserialize is replaced by the defaults
from_str_or_default(content) ==
    IF content.toml /\ DOMAIN content.tables = ConfigTables
    THEN Ok([n \in ConfigTables |-> content.tables[n]])
    ELSE Ok(DefaultConfig)
\* toml::from_str::<SniConfig>: a syntax error or a missing field is an Err
from_str(content) ==
    IF content.toml /\ DOMAIN content.tables = ConfigTables
    THEN Ok([n \in ConfigTables |-> content.tables[n]])
    ELSE Err

\* the environment writes or replaces what is at the path
WriteConfig(f) ==
    /\ cfgFile # Some(f)
    /\ cfgFile' = Some(f)
    /\ UNCHANGED <<cfgPc, cfgResult, storeVars, procVars, orchVars,
                   gaugeVars, schemaVars, apiVars, rpcReply>>

\* the environment removes it
RemoveConfig ==
    /\ cfgFile # None
    /\ cfgFile' = None
    /\ UNCHANGED <<cfgPc, cfgResult, storeVars, procVars, orchVars,
                   gaugeVars, schemaVars, apiVars, rpcReply>>

\* SniConfig::load: `if !path.exists() { return Ok(Self::default()) }`
LoadExists ==
    /\ cfgPc \in {"idle", "done"}
    /\ IF exists(cfgFile)
       THEN cfgPc' = "read" /\ cfgResult' = None
       ELSE cfgPc' = "done" /\ cfgResult' = Some(Ok(DefaultConfig))
    /\ UNCHANGED <<cfgFile, storeVars, procVars, orchVars, gaugeVars,
                   schemaVars, apiVars, rpcReply>>

\* SniConfig::load: read_to_string(path)?, toml::from_str(&content)?
LoadRead ==
    /\ cfgPc = "read"
    /\ cfgPc' = "done"
    /\ cfgResult' =
           IF read_to_string(cfgFile) = Err THEN Some(Err)
           ELSE Some(from_str(read_to_string(cfgFile)[1]))
    /\ UNCHANGED <<cfgFile, storeVars, procVars, orchVars, gaugeVars,
                   schemaVars, apiVars, rpcReply>>

NextConfig ==
    \/ \E f \in ConfigFiles : WriteConfig(f)
    \/ RemoveConfig
    \/ LoadExists
    \/ LoadRead

SpecConfig == Init /\ [][NextConfig]_vars

(***************************************************************************)
(* SpecNet: NetworkMonitor::check_health called again and again, as by the *)
(* monitor loop, with every combination of answers of the RPC client.  The *)
(* function has no await: it runs from its first query to its return in    *)
(* one poll.                                                               *)
(***************************************************************************)
CheckHealth(rpc, now) ==
    /\ slot_height' = check_health(rpc, now).slot_height
    /\ epoch' = check_health(rpc, now).epoch
    /\ transaction_count' = check_health(rpc, now).transaction_count
    /\ last_health_check' = check_health(rpc, now).last_health_check
    /\ healthResult' = check_health(rpc, now).result
    /\ rpcReply' = Some(rpc)
    /\ UNCHANGED <<started_at, running, taskVars, startCalls, restartRet,
                   engineStopped, emitted, validators, last_update, storeVars,
                   procVars, gaugeVars, schemaVars, apiVars, cfgVars>>

NextNet == \E rpc \in RpcReplies, now \in Instants : CheckHealth(rpc, now)

SpecNet == Init /\ [][NextNet]_vars

(***************************************************************************)
(* SpecNorm: process_tide_data on a store that one caller of store() also  *)
(* writes Blocks into, so that an event can meet a row of its slot whose   *)
(* fields are not the ones normalization writes.                           *)
(***************************************************************************)
NextNorm ==
    \/ \E d \in BlockRecs : StoreCall(1, d)
    \/ StoreOk(1)
    \/ \E data \in TideData : ProcessCall(1, data)
    \/ ProcessStoreOk(1)
    \/ ProcessStoreErr(1)
    \/ ProcessCount(1)

SpecNorm == Init /\ [][NextNorm]_vars

(***************************************************************************)
(* Reading rows back: the columns as the record types of IndexedData.      *)
(* The source has no row reader; these operators serve the properties.     *)
(***************************************************************************)
BlockOfRow(r) ==
    [kind |-> "Block", slot |-> AsU64(r.slot), parent_slot |-> AsU64(r.parent_slot),
     height |-> AsU64(r.height), timestamp |-> r.timestamp,
     blockhash |-> r.blockhash,
     transactions_count |-> AsU64(r.transactions_count)]

TransactionOfRow(r) ==
    [kind |-> "Transaction", signature |-> r.signature, slot |-> AsU64(r.slot),
     timestamp |-> r.timestamp, success |-> r.success,
     transaction_data |-> r.transaction_data]

AccountOfRow(r) ==
    [kind |-> "Account", pubkey |-> r.pubkey, owner |-> r.owner,
     lamports |-> AsU64(r.lamports), slot |-> AsU64(r.slot),
     executable |-> r.executable, rent_epoch |-> AsU64(r.rent_epoch),
     data_hash |-> r.data_hash]

SlotOfRow(r) ==
    [kind |-> "Slot", slot |-> AsU64(r.slot),
     parent |-> IF r.parent = None THEN None ELSE Some(AsU64(r.parent[1])),
     status |-> r.status, timestamp |-> r.timestamp]

\* every stored row, read back as a record
StoredRecords ==
    { BlockOfRow(r) : r \in blocks } \cup { TransactionOfRow(r) : r \in transactions }
    \cup { AccountOfRow(r) : r \in accounts } \cup { SlotOfRow(r) : r \in slots }

\* two records of the same variant with the same natural key
SameKey(d, e) ==
    /\ d.kind = e.kind
    /\ CASE d.kind = "Block" -> d.slot = e.slot
         [] d.kind = "Transaction" -> d.signature = e.signature
         [] d.kind = "Account" -> d.pubkey = e.pubkey
         [] d.kind = "Slot" -> d.slot = e.slot

Idle == \A c \in Callers : inflight[c] = None
LogOf(k) == SelectSeq(log, LAMBDA d : d.kind = k)
Indices(q) == 1..Len(q)
LastOf(q) == q[Len(q)]
MaxOf(S) == CHOOSE m \in S : \A x \in S : x <= m

\* a store() has just completed with Ok, appending its record to the history
Committed == Len(log') = Len(log) + 1

(***************************************************************************)
(* Claims about StorageManager (Spec).                                     *)
(***************************************************************************)

\* C1: when store() of a Block completes and a Block with the same slot was
\* stored before, the blocks table afterwards holds exactly one row for that
\* slot, every non-key field of it is the one of the record just stored, and
\* get_block_count is the same as before the call.
C1_IdempotentBlockUpsert ==
    [][ ( /\ Committed
          /\ LastOf(log').kind = "Block"
          /\ \E i \in Indices(log) : SameKey(log[i], LastOf(log')) )
        => ( /\ { BlockOfRow(r) : r \in { x \in blocks' :
                     AsU64(x.slot) = LastOf(log').slot } } = { LastOf(log') }
             /\ Cardinality({ x \in blocks' : AsU64(x.slot) = LastOf(log').slot }) = 1
             /\ get_block_count' = get_block_count ) ]_vars

\* C1 witness: Block{slot 1, transactions_count 3} then Block{slot 1,
\* transactions_count 5} were stored one after the other; one row is left.
C1_Witness ==
    /\ ~overlapped
    /\ Len(log) = 2
    /\ log[1].kind = "Block" /\ log[1].slot = 1 /\ log[1].transactions_count = 3
    /\ log[2].kind = "Block" /\ log[2].slot = 1 /\ log[2].transactions_count = 5
    /\ get_block_count = 1
    /\ \A r \in blocks : BlockOfRow(r).transactions_count = 5

\* the slots of the Blocks stored so far
StoredSlots == { log[i].slot : i \in { j \in Indices(log) : log[j].kind = "Block" } }

\* C2: after any sequence of sequential store(Block) calls on an empty store,
\* get_latest_slot is the maximum slot stored (None when no Block was stored)
\* and get_block_count is the number of distinct slots stored.
C2_OrderIndependence ==
    (Idle /\ ~overlapped)
    => ( /\ get_latest_slot =
              (IF StoredSlots = {} THEN None ELSE Some(MaxOf(StoredSlots)))
         /\ get_block_count = Cardinality(StoredSlots) )

\* C3: when every store() has completed with Ok and the Transactions stored
\* have pairwise distinct signatures, get_transaction_count is their number.
C3_ExactCardinality ==
    ( /\ Idle
      /\ failed = 0
      /\ \A i, j \in Indices(LogOf("Transaction")) :
            i # j => LogOf("Transaction")[i].signature # LogOf("Transaction")[j].signature )
    => get_transaction_count = Len(LogOf("Transaction"))

\* C3 witness: two Transactions with distinct signatures were stored by
\* callers whose store() calls overlapped, and both calls have completed.
C3_Witness ==
    /\ Idle /\ failed = 0 /\ overlapped
    /\ calls = 2 /\ Len(LogOf("Transaction")) = 2
    /\ log[1].signature # log[2].signature
    /\ get_transaction_count = 2

\* C4: for every natural key stored so far, the table holds exactly one row
\* for it, and that row is the complete record of the store() for that key
\* that committed last (no field of an earlier record survives), whatever
\* the slots and timestamps the records carry.
C4_LastCommitWins ==
    \A i \in Indices(log) :
        (\A j \in Indices(log) : j > i => ~SameKey(log[i], log[j]))
        => /\ { e \in StoredRecords : SameKey(e, log[i]) } = { log[i] }
           /\ Cardinality({ r \in blocks : log[i].kind = "Block"
                               /\ AsU64(r.slot) = log[i].slot }) <= 1

\* C4 witness: two store() calls for slot 1 were pending at the same time with
\* records that differ in every non-key field; both completed, and the row is
\* the record that committed last although its timestamp is the older one.
C4_Witness ==
    /\ Idle /\ overlapped /\ calls = 2 /\ Len(log) = 2
    /\ SameKey(log[1], log[2]) /\ log[1].kind = "Block"
    /\ log[1].blockhash # log[2].blockhash
    /\ log[1].transactions_count # log[2].transactions_count
    /\ log[2].timestamp < log[1].timestamp
    /\ { BlockOfRow(r) : r \in blocks } = { log[2] }

(***************************************************************************)
(* Claims about IndexerStats (SpecProc).                                   *)
(***************************************************************************)
Incremented == { t \in Tasks : procPc[t] = "ok" }

\* C5: blocks_processed, which starts at 0, always equals the number of tasks
\* that have performed their increment; so after M increments by concurrently
\* running tasks it is exactly M.
C5_CounterExact == blocks_processed = Cardinality(Incremented)

\* C5 witness: every task has performed its increment and the counter is the
\* number of tasks.
C5_Witness ==
    /\ \A t \in Tasks : procPc[t] = "ok"
    /\ blocks_processed = NumTasks

(***************************************************************************)
(* Claims about the orchestrator (SpecOrch, FairSpecOrch).                 *)
(***************************************************************************)
\* a start() call is made in this step
StartStep == startCalls' = startCalls + 1

\* C6: the first start() leaves Idle: it sets the flag and launches the three
\* loops.  Every start() after it returns "Already started", launches nothing
\* and leaves the flag as it is.  started_at stays set and, once started, a
\* cleared flag stays cleared (Stopped is terminal).
C6_StartOnce ==
    [][ /\ (StartStep /\ started_at = None)
           => ( /\ running' /\ joinPc' = "pending"
                /\ enginePc' = "run" /\ monPc' = "init" /\ statsPc' = "init" )
        /\ (StartStep /\ started_at # None)
           => ( /\ restartRet' = "Already started"
                /\ UNCHANGED <<started_at, running, taskVars>> )
        /\ (started_at # None) => (started_at' = started_at)
        /\ (started_at # None /\ ~running) => ~running' ]_vars

\* C6 witness: a second start() has returned "Already started" while the
\* orchestrator is Running; the monitor loop is still in its sleep.
C6_Witness ==
    /\ restartRet = "Already started"
    /\ running /\ joinPc = "pending"
    /\ enginePc = "run" /\ monPc = "sleep" /\ statsPc = "sleep"

\* C7: when the engine task returns an error, start() returns it in the same
\* step, and from then on neither loop moves: no health check, validator
\* refresh, gauge write or stats report happens any more.
C7_FailFast ==
    /\ [](enginePc = "err" => joinPc = "err")
    /\ [](joinPc = "err" => /\ monPc \in {"ok", "dropped"}
                            /\ statsPc \in {"ok", "dropped"})
    /\ [][joinPc = "err" => UNCHANGED <<monPc, statsPc, netVars>>]_vars

\* C7 witness: the engine failed while Running after the monitor had
\* iterated; start() returned the error and both loops were dropped.
C7_Witness ==
    /\ enginePc = "err" /\ joinPc = "err" /\ running
    /\ monPc = "dropped" /\ statsPc = "dropped"
    /\ last_update # None

\* what C8 says of every step: stop() clears the flag when it signals the
\* engine; a loop that reads the flag as false returns Ok and a loop that has
\* returned stays so
C8_StopSteps ==
    /\ (engineStopped' /\ ~engineStopped) => ~running'
    /\ (running /\ ~running') => engineStopped'
    /\ (monPc \in {"init", "sleep"} /\ ~running /\ monPc' # monPc)
       => monPc' \in {"ok", "dropped"}
    /\ (statsPc \in {"init", "sleep"} /\ ~running /\ statsPc' # statsPc)
       => statsPc' \in {"ok", "dropped"}
    /\ (monPc = "ok" => monPc' = "ok") /\ (statsPc = "ok" => statsPc' = "ok")

\* the health check, validator refresh or report in progress is completed
C8_WorkCompleted ==
    /\ (monPc = "health" /\ monPc' # monPc) => monPc' = "validator"
    /\ (monPc = "validator" /\ monPc' # monPc) => monPc' = "sleep"
    /\ (statsPc = "report" /\ statsPc' # statsPc) => statsPc' = "sleep"

\* the loops are live and the flag has been cleared
StoppedWhileRunning == ~running /\ joinPc = "pending"

\* C8 as claimed: stop() clears the flag and signals the engine; after a
\* stop() while Running no iteration in flight is aborted (no loop is
\* dropped), no loop begins an iteration after reading the flag as false, and
\* both loops eventually return Ok.
C8_CooperativeStop_Original ==
    /\ [][C8_StopSteps /\ C8_WorkCompleted]_vars
    /\ [][StoppedWhileRunning => (monPc' # "dropped" /\ statsPc' # "dropped")]_vars
    /\ (StoppedWhileRunning ~> (monPc = "ok" /\ statsPc = "ok"))

\* C8 as amended: as above, but a loop is only guaranteed to finish the work
\* of its iteration, and both loops eventually return Ok unless the engine
\* task returns an error first: the join then drops each loop that has not
\* returned, in its sleep or before its first poll.
C8_CooperativeStop ==
    /\ [][C8_StopSteps /\ C8_WorkCompleted]_vars
    /\ [][(monPc' = "dropped" /\ monPc # "dropped")
          => (monPc \in {"init", "sleep"} /\ joinPc' = "err")]_vars
    /\ [][(statsPc' = "dropped" /\ statsPc # "dropped")
          => (statsPc \in {"init", "sleep"} /\ joinPc' = "err")]_vars
    /\ (StoppedWhileRunning ~> ((monPc = "ok" /\ statsPc = "ok") \/ joinPc = "err"))

\* C8 witness: stop() was called while Running; both loops, which had
\* iterated, have returned Ok while the engine task is still running.
C8_Witness ==
    /\ ~running /\ engineStopped /\ joinPc = "pending" /\ enginePc = "run"
    /\ monPc = "ok" /\ statsPc = "ok"
    /\ last_update # None

\* C9: the monitor loop never returns an error; whatever check_health
\* returned, the validator refresh of the same iteration follows; a loop that
\* reads the flag as true begins the next iteration (unless the join drops
\* it); and it returns Ok only on reading the flag as false.
C9_MonitorErrorsContained ==
    /\ [](monPc # "err")
    /\ [][(monPc = "health" /\ monPc' # monPc) => monPc' = "validator"]_vars
    /\ [][(monPc \in {"init", "sleep"} /\ running /\ monPc' # monPc)
          => monPc' \in {"health", "dropped"}]_vars
    /\ [][(monPc # "ok" /\ monPc' = "ok") => ~running]_vars

\* C9 witness: the latest health check failed, the validator refresh ran and
\* the loop, still Running, has begun its next iteration.
C9_Witness ==
    /\ healthResult = "Err" /\ last_update # None
    /\ running /\ joinPc = "pending" /\ monPc = "health"

\* C10: every event the engine has produced eventually has a row for its slot
\* in the blocks table and is counted in blocks_processed, as long as the
\* orchestrator stays Running (the flag set and start() not returned).
C10_EndToEndIngestion ==
    \A data \in EngineEvents :
        (data \in emitted)
        ~> \/ /\ \E r \in blocks : AsU64(r.slot) = data.slot
              /\ blocks_processed > 0
           \/ ~running
           \/ joinPc # "pending"

(***************************************************************************)
(* Claims about the ingestion path under the orchestrator (SpecPipe).      *)
(***************************************************************************)
\* C11: when store() fails for an event being processed, process_tide_data
\* returns the error without incrementing blocks_processed, and start()
\* returns that error through the fail-fast join.
C11_StoreFailureFatal ==
    \A t \in Tasks :
        procPc[t] = "err" =>
            /\ blocks_processed = Cardinality(Incremented)
            /\ joinPc = "err"

\* the part of C11 that concerns process_tide_data alone: the step in which
\* store() fails leaves blocks_processed as it was
C11_FailureNotCounted ==
    [][\A t \in Tasks :
          (procPc[t] = "store" /\ procPc'[t] = "err") =>
              blocks_processed' = blocks_processed]_vars

(***************************************************************************)
(* Claims about the health endpoint (SpecApi).                             *)
(***************************************************************************)
\* the handler builds its response in this step, and no store() was pending
\* from the arrival of the request on
RespondsQuietly == apiResponse = None /\ apiResponse' # None /\ apiQuiet'

\* the response carries the counts the store has at response time
CountsAtResponse ==
    /\ apiResponse'[1].success
    /\ apiResponse'[1].data # None
    /\ apiResponse'[1].data[1].blocks_indexed = get_block_count'
    /\ apiResponse'[1].data[1].transactions_indexed = get_transaction_count'

\* C12 as stated: a health query served when no store is in flight returns
\* success = true with blocksIndexed = blockCount() and transactionsIndexed =
\* transactionCount().
C12_HealthConsistency_Original ==
    [][RespondsQuietly => CountsAtResponse]_vars

\* C12, amended: a health query served when no store is in flight returns,
\* when both count queries succeed, success = true with blocksIndexed =
\* blockCount() and transactionsIndexed = transactionCount() at response
\* time, and success = false when a count query fails.
C12_HealthConsistency ==
    [][RespondsQuietly =>
          IF \A i \in 1..Len(apiQueries') : apiQueries'[i] = "Ok"
          THEN CountsAtResponse
          ELSE ~apiResponse'[1].success]_vars

\* 5 Blocks and 3 Transactions are stored and the health response says so
C12_Witness ==
    /\ apiPc = "done" /\ apiQuiet
    /\ Cardinality(blocks) = 5 /\ Cardinality(transactions) = 3
    /\ apiResponse = Some(ApiSuccess(HealthResponse(5, 3)))

(***************************************************************************)
(* Claims about the schema and the growth of the tables (SpecSchema).      *)
(***************************************************************************)
\* the primary keys present in a table
KeysOf(table, pk) == { r[pk] : r \in table }

\* every key of the table stays and its row count does not decrease
Grows(table, tableNext, pk) ==
    /\ KeysOf(table, pk) \subseteq KeysOf(tableNext, pk)
    /\ Cardinality(table) <= Cardinality(tableNext)

\* C13: no store() and no initialize_schema() removes a key from a table;
\* the row count of each table never decreases.
C13_AppendReplaceOnly ==
    [][/\ Grows(blocks, blocks', BlockKey)
       /\ Grows(transactions, transactions', TransactionKey)
       /\ Grows(accounts, accounts', AccountKey)
       /\ Grows(slots, slots', SlotKey)]_vars

\* initialize_schema has run again on a database that held rows in all
\* four tables, and they hold them still
C13_Witness ==
    /\ schemaRuns = 2 /\ schemaRowsSeen > 3
    /\ blocks # {} /\ transactions # {} /\ accounts # {} /\ slots # {}

\* initialize_schema runs in this step
SchemaStep == schemaRuns' = schemaRuns + 1

\* C14: initialize_schema on a database whose tables and indexes exist
\* returns Ok and leaves every row and object as it was, so the state after
\* k >= 1 runs is the state after one.
C14_SchemaIdempotent ==
    [][(SchemaStep /\ schema = SchemaTables \cup SchemaIndexes) =>
          /\ schemaResult' = "Ok"
          /\ schema' = schema
          /\ UNCHANGED tableVars]_vars

\* the second run found rows and objects, returned Ok and the rows are there
C14_Witness ==
    /\ schemaRuns = 2 /\ schemaResult = "Ok"
    /\ schemaRowsSeen = Cardinality(StoredRecords)
    /\ Cardinality(blocks) = Cardinality(SlotVals)
    /\ schema = SchemaTables \cup SchemaIndexes

(***************************************************************************)
(* Claims about the configuration loader (SpecConfig).                     *)
(***************************************************************************)
\* a file that is not a well-formed configuration: not TOML, or a table of
\* SniConfig is missing
Malformed(f) == f.kind = "file" /\ (~f.toml \/ DOMAIN f.tables # ConfigTables)

\* C15: loading from a path that does not exist returns Ok with exactly the
\* default configuration (database URL sqlite:sni.db, batch size 1000, flush
\* interval 5000 ms), never an error; an existing file with malformed
\* content yields an error, not the defaults.
C15_ConfigFallback ==
    [][/\ (LoadExists /\ cfgFile = None) =>
              /\ cfgResult' = Some(Ok(DefaultConfig))
              /\ cfgResult'[1][1].storage.database_url = "sqlite:sni.db"
              /\ cfgResult'[1][1].storage.batch_size = 1000
              /\ cfgResult'[1][1].storage.flush_interval_ms = 5000
       /\ (LoadRead /\ cfgFile # None /\ Malformed(cfgFile[1])) =>
              cfgResult' = Some(Err)]_vars

\* nothing is at the path and the load has returned Ok with the defaults
C15_Witness ==
    /\ cfgPc = "done" /\ cfgFile = None
    /\ cfgResult = Some(Ok(DefaultConfig))

(***************************************************************************)
(* Claims about the gauges (SpecProc, SpecNet).                            *)
(***************************************************************************)
\* C16: after each unit processed by the ingestion path the gauge
\* processing_latency_ms is overwritten with the latency of that unit, so
\* once a unit has been processed and no unit is being processed the gauge
\* has been written.
C16_LatencyGaugeWritten ==
    (/\ Incremented # {}
     /\ \A t \in Tasks : procPc[t] \in {"idle", "ok", "err"})
        => latencyStores >= Cardinality(Incremented)

\* the position of the first query that failed in the check_health of this
\* step: 1 get_slot, 2 get_epoch_info, 3 get_transaction_count, 4 none
FirstFailure ==
    IF rpcReply'[1].get_slot = Err THEN 1
    ELSE IF rpcReply'[1].get_epoch_info = Err THEN 2
    ELSE IF rpcReply'[1].get_transaction_count = Err THEN 3
    ELSE 4

\* C17: check_health updates the gauges one by one, in the order slot
\* height, epoch, transaction count: when the k-th query fails the gauges
\* before it hold the new values, the k-th and later ones keep theirs and
\* last_health_check is unchanged; it is set only when all three succeed.
C17_GaugesInOrder ==
    [][(\E rpc \in RpcReplies, now \in Instants : CheckHealth(rpc, now)) =>
          /\ slot_height' =
                 IF FirstFailure > 1 THEN rpcReply'[1].get_slot[1] ELSE slot_height
          /\ epoch' =
                 IF FirstFailure > 2 THEN rpcReply'[1].get_epoch_info[1] ELSE epoch
          /\ transaction_count' =
                 IF FirstFailure > 3 THEN rpcReply'[1].get_transaction_count[1]
                 ELSE transaction_count
          /\ IF FirstFailure = 4
             THEN last_health_check' \in { Some(now) : now \in Instants }
             ELSE last_health_check' = last_health_check
          /\ healthResult' = IF FirstFailure = 4 THEN "Ok" ELSE "Err"]_vars

\* after a check that succeeded with 1, 1, 1 at instant 1, a check whose
\* second query failed has left slot height 2 beside the old epoch
C17_Witness ==
    /\ rpcReply # None
    /\ rpcReply[1].get_slot = Ok(2) /\ rpcReply[1].get_epoch_info = Err
    /\ slot_height = 2 /\ epoch = 1 /\ transaction_count = 1
    /\ last_health_check = Some(1) /\ healthResult = "Err"

(***************************************************************************)
(* Further claims about StorageManager (Spec).                             *)
(***************************************************************************)
\* C18: for every non-empty set of stored slots of the whole u64 range,
\* slots of 2^63 and above included, get_latest_slot returns the
\* numerically largest stored slot.
C18_FullRangeLatestSlot ==
    (Idle /\ StoredSlots # {}) => get_latest_slot = Some(MaxOf(StoredSlots))

\* C19: store() never rejects or ignores a write because of its contents:
\* when a store() completes, the row of its key is its record, whatever the
\* slot, status or timestamp of the row it replaces.
C19_NoContentGuard ==
    [][Committed =>
          { e \in StoredRecords' : SameKey(e, LastOf(log')) } = { LastOf(log') }]_vars

\* the Account at slot 10 was stored, then the same pubkey at slot 5: the
\* row left is the one at slot 5
C19_Witness ==
    /\ Len(log) = 2 /\ ~overlapped
    /\ log[1].kind = "Account" /\ log[1].slot = 10
    /\ log[2].kind = "Account" /\ log[2].slot = 5
    /\ { AccountOfRow(r) : r \in accounts } = { log[2] }

\* C20: store() touches only the table of the variant of its record: the
\* other three tables and the queries over them are as before, and a
\* Transaction is stored whether or not blocks has a row for its slot.
C20_VariantIsolation ==
    [][Committed =>
          /\ LastOf(log').kind # "Block" =>
                 /\ blocks' = blocks
                 /\ get_block_count' = get_block_count
                 /\ get_latest_slot' = get_latest_slot
          /\ LastOf(log').kind # "Transaction" =>
                 /\ transactions' = transactions
                 /\ get_transaction_count' = get_transaction_count
          /\ LastOf(log').kind # "Account" => accounts' = accounts
          /\ LastOf(log').kind # "Slot" => slots' = slots
          /\ LastOf(log').kind = "Transaction" =>
                 TransactionRow(LastOf(log')) \in transactions']_vars

\* a Transaction of slot 1 was stored last; blocks holds a row, for slot 2
\* alone, and the other two tables are empty
C20_Witness ==
    /\ Len(log) = 2
    /\ log[1].kind = "Block" /\ log[1].slot = 2
    /\ log[2].kind = "Transaction" /\ log[2].slot = 1
    /\ { BlockOfRow(r) : r \in blocks } = { log[1] }
    /\ { TransactionOfRow(r) : r \in transactions } = { log[2] }
    /\ accounts = {} /\ slots = {}

(***************************************************************************)
(* Claims about normalization (SpecNorm).                                  *)
(***************************************************************************)
\* the Block the claim describes for an event: its slot, hash and timestamp,
\* and the literal 0 in the three fields the event does not carry
ZeroSentinelBlock(data) ==
    [kind |-> "Block", slot |-> data.slot, parent_slot |-> 0, height |-> 0,
     timestamp |-> data.timestamp, blockhash |-> data.block_hash,
     transactions_count |-> 0]

\* C21: process_tide_data turns an event into exactly one Block whose slot,
\* blockhash and timestamp are the event's and whose parent_slot, height and
\* transactions_count are 0; when its store completes, the one row of that
\* slot holds these values, whatever the row of the slot held before.
C21_ZeroSentinelNormalization ==
    [][\A t \in Tasks :
          /\ (procPc[t] = "idle" /\ procPc'[t] = "store") =>
                 \E data \in TideData : procData'[t] = Some(ZeroSentinelBlock(data))
          /\ (procPc[t] = "store" /\ procPc'[t] = "count") =>
                 /\ { BlockOfRow(r) : r \in { x \in blocks' :
                        AsU64(x.slot) = procData[t][1].slot } } = { procData[t][1] }
                 /\ \A r \in blocks' :
                        AsU64(r.slot) = procData[t][1].slot =>
                            /\ r.parent_slot = 0 /\ r.height = 0
                            /\ r.transactions_count = 0
                 /\ { r \in blocks' : AsU64(r.slot) # procData[t][1].slot }
                        = { r \in blocks : AsU64(r.slot) # procData[t][1].slot }
                 /\ UNCHANGED <<transactions, accounts, slots>>]_vars

\* a Block of slot 2^(Width-1) with parent_slot and height set was stored,
\* then an event of that slot was processed: the row has 0 in both
C21_Witness ==
    /\ Len(log) = 1 /\ inflight[1] = None
    /\ log[1].slot = I64Max + 1 /\ log[1].height = 1 /\ log[1].parent_slot = U64Max
    /\ procPc[1] = "ok" /\ procData[1][1].slot = I64Max + 1
    /\ \A r \in blocks : r.height = 0 /\ r.parent_slot = 0
    /\ Cardinality(blocks) = 1

(***************************************************************************)
(* Further claims about the orchestrator (SpecOrch).                       *)
(***************************************************************************)
\* C22: update_validator_info only records the time of the refresh and
\* leaves the validator map as it is, so in every reachable state
\* get_validator_count is 0 and get_validator returns None for every
\* identity.
C22_ValidatorPlaceholder ==
    /\ [](/\ get_validator_count = 0
          /\ \A identity \in Identities : get_validator(identity) = None)
    /\ [][last_update' # last_update =>
              /\ monPc = "validator"
              /\ validators' = validators
              /\ UNCHANGED <<slot_height, epoch, transaction_count, last_health_check,
                             storeVars, procVars>>]_vars

\* a refresh has recorded its time at instant 2 after an earlier health
\* check, and the map is empty
C22_Witness ==
    /\ last_update = Some(2) /\ monPc = "sleep"
    /\ healthResult = "Ok"
    /\ validators = {} /\ get_validator_count = 0

(***************************************************************************)
(* Further claims about IndexerStats (SpecProc).                           *)
(***************************************************************************)
\* the tasks whose store() has completed with Ok
StoredOk == { t \in Tasks : procPc[t] \in {"count", "ok"} }

\* the tasks an event was delivered to
Delivered == { t \in Tasks : procData[t] # None }

\* no task is inside process_tide_data
NoneInFlight == \A t \in Tasks : procPc[t] \in {"idle", "ok", "err"}

\* some slot is the slot of two tasks of T
Repeated(T) ==
    \E t, u \in T : t # u /\ procData[t][1].slot = procData[u][1].slot

\* C23 as stated: blocks_processed is at most the number of store(Block)
\* calls completed with Ok through process_tide_data; when no processing is
\* in flight get_block_count <= blocks_processed, with equality exactly when
\* no slot was delivered more than once.
C23_CounterBounds_Original ==
    /\ blocks_processed <= Cardinality(StoredOk)
    /\ NoneInFlight =>
           /\ get_block_count <= blocks_processed
           /\ (get_block_count = blocks_processed) <=> ~Repeated(Delivered)

\* C23, amended: the same, with equality exactly when no slot was stored
\* with Ok more than once; a delivery whose store() failed is not counted
\* and leaves no row.
C23_CounterBounds ==
    /\ blocks_processed <= Cardinality(StoredOk)
    /\ NoneInFlight =>
           /\ get_block_count <= blocks_processed
           /\ (get_block_count = blocks_processed) <=> ~Repeated(StoredOk)

\* slot 1 was delivered three times: two deliveries were stored and counted,
\* the store() of the third failed; one row, counter 2
C23_Witness ==
    /\ NoneInFlight /\ Delivered = Tasks
    /\ \A t \in Tasks : procData[t][1].slot = 1
    /\ Cardinality(StoredOk) = 2
    /\ blocks_processed = 2 /\ get_block_count = 1


\* a loop returns Ok(()) in this step
MonReturns == monPc # "ok" /\ monPc' = "ok"
StatsReturns == statsPc # "ok" /\ statsPc' = "ok"

\* C24: start() returns Ok only once the engine task and both loops have
\* returned Ok; a loop returns only in a step that reads the running flag as
\* false.  So whenever start() has returned Ok, stop() was called before and
\* the flag is false; and while the engine task has finished Ok with the flag
\* still true, start() has not returned.
C24_OkOnlyAfterStop ==
    /\ [](joinPc = "ok" => /\ enginePc = "ok" /\ monPc = "ok" /\ statsPc = "ok"
                           /\ engineStopped /\ ~running)
    /\ [](enginePc = "ok" /\ running => joinPc = "pending")
    /\ [][(MonReturns \/ StatsReturns) => (~running /\ engineStopped)]_vars

\* C24 witness: start() has returned Ok after the monitor loop had iterated
\* and stop() was called.
C24_Witness ==
    /\ joinPc = "ok" /\ enginePc = "ok" /\ monPc = "ok" /\ statsPc = "ok"
    /\ last_update # None /\ engineStopped /\ ~running

\* the other case of C24: the engine task has finished Ok while Running and
\* start() is still waiting for the loops
C24_EngineOkWhileRunning ==
    enginePc = "ok" /\ running /\ joinPc = "pending" /\ monPc = "sleep"


\* a step of stop(): neither a start() nor a poll of the joined futures
StopStep == engineStopped' /\ UNCHANGED <<started_at, startCalls, restartRet, taskVars>>

\* C25: the running flag becomes true only in the first, successful start()
\* and becomes false only in stop().  A stop() taken while Idle is not
\* remembered: the start() that follows still sets the flag and launches the
\* three loops.  start() returning the engine's error leaves the flag as it
\* is.
C25_FlagWriters ==
    [][ /\ (~running /\ running')
           => (StartStep /\ started_at = None /\ started_at' # None)
        /\ (running /\ ~running') => StopStep
        /\ (StartStep /\ started_at = None /\ engineStopped)
           => ( /\ running' /\ joinPc' = "pending"
                /\ enginePc' = "run" /\ monPc' = "init" /\ statsPc' = "init" )
        /\ (joinPc # "err" /\ joinPc' = "err") => running' = running ]_vars

\* C25 witness: stop() was called while Idle, the start() after it set the
\* flag and the monitor loop it launched is in its first iteration.
C25_Witness ==
    /\ engineStopped /\ running /\ started_at # None
    /\ joinPc = "pending" /\ monPc = "health" /\ last_update = None

\* the other case of C25: start() has returned the engine's error and the
\* flag is still set
C25_FlagSetAfterError == joinPc = "err" /\ running /\ ~engineStopped


(***************************************************************************)
(* Further claims about the health endpoint (SpecApi).                     *)
(***************************************************************************)
\* a count query of the request being answered has failed
QueryFailed == \E i \in 1..Len(apiQueries) : apiQueries[i] = "Err"

\* the fields of a complete HealthResponse
HealthFields ==
    {"status", "version", "uptime_seconds", "blocks_indexed", "transactions_indexed"}

\* C26: every health response is well-formed: success is true exactly when
\* data is present and error is null, and data and error are never both
\* present or both absent.  If the block count or the transaction count
\* fails, the response has success = false, no data and an error.  Data, when
\* present, is complete: both queries succeeded and every field is filled,
\* the block count being the one the first query returned.
C26_WellFormedHealth ==
    apiResponse # None =>
        /\ apiResponse[1].success
           <=> (apiResponse[1].data # None /\ apiResponse[1].error = None)
        /\ (apiResponse[1].data = None) <=> (apiResponse[1].error # None)
        /\ QueryFailed => /\ ~apiResponse[1].success
                          /\ apiResponse[1].data = None
                          /\ apiResponse[1].error # None
        /\ apiResponse[1].data # None
           => /\ apiQueries = <<"Ok", "Ok">>
              /\ DOMAIN apiResponse[1].data[1] = HealthFields
              /\ apiBlocks # None
              /\ apiResponse[1].data[1].blocks_indexed = apiBlocks[1]

\* C26 witness: the block count succeeded with a stored Block, the
\* transaction count failed, and the response is a failure without data.
C26_Witness ==
    /\ apiResponse # None /\ apiQueries = <<"Ok", "Err">>
    /\ apiBlocks # None /\ apiBlocks[1] > 0
    /\ ~apiResponse[1].success /\ apiResponse[1].data = None
    /\ apiResponse[1].error = Some("get_transaction_count")

====
